---- MODULE Spec2Model ----
(***************************************************************************)
(* Model of notebooks/actor-critic.ipynb: the episode rollout              *)
(* (run_episode), the discounted-return computation                        *)
(* (get_expected_return), the per-episode training step (train_step) and   *)
(* the training loop with its bounded reward history.                      *)
(*                                                                         *)
(* Real numbers are exact rationals <<n, d>> in lowest terms with d > 0;   *)
(* d = 0 encodes the IEEE results of a division by zero: <<0, 0>> is NaN,  *)
(* <<1, 0>> and <<-1, 0>> are the infinities.                              *)
(***************************************************************************)
EXTENDS Integers, Sequences, FiniteSets

VARIABLES
    pc,                 \* position in the notebook's control flow
    iter,               \* items already drawn from tqdm.trange(max_episodes)
    i,                  \* the training loop's variable i (-1: not yet bound)
    max_steps,          \* run_episode's max_steps argument
    gamma,              \* discount factor handed to get_expected_return
    standardize,        \* get_expected_return's standardize argument
    t,                  \* run_episode's loop variable
    reward,             \* reward returned by the last env_step
    done,               \* termination flag returned by the last env_step
    env_steps,          \* env.step calls since the last env.reset
    env_done,           \* the environment has signalled termination
    stepped_after_done, \* env.step was called on a terminated environment
    action_probs,       \* TensorArray action_probs
    values,             \* TensorArray values
    rewards,            \* TensorArray rewards
    stacked,            \* which of the three arrays run_episode returns stacked
    returns,            \* result of get_expected_return
    params,             \* model.trainable_variables, as the number of
                        \* optimizer steps that produced them
    episode_reward,     \* train_step's result
    episodes_reward,    \* collections.deque(maxlen=min_episodes_criterion)
    running_reward,     \* statistics.mean(episodes_reward)
    reported            \* what the final print shows: <<i, running_reward>>

vars == <<pc, iter, i, max_steps, gamma, standardize, t, reward, done,
          env_steps, env_done, stepped_after_done, action_probs, values,
          rewards, stacked, returns, params, episode_reward,
          episodes_reward, running_reward, reported>>

----------------------------------------------------------------------------
(* Hyper-parameters of the training cell, scaled down.                     *)

min_episodes_criterion == 2

max_episodes == 4

max_steps_per_episode == 2

reward_threshold == 1

(* Largest reward the environment hands out in one step.                   *)
MaxReward == 1

(* Longest reward sequence, and largest reward in it, handed to            *)
(* get_expected_return on its own.                                         *)
MaxLen == 3

MaxInput == 2

(* Largest step cap handed to train_step on its own.                       *)
MaxSteps == 3

Rewards == 0..MaxReward

(* Discount factors tried.                                                 *)
Gammas == {<<0, 1>>, <<1, 2>>, <<3, 4>>}

(* The training cell's discount factor (0.99 in the notebook; 1/2 here     *)
(* keeps every return exactly representable in 32 bits).                   *)
train_gamma == <<1, 2>>

(* eps = np.finfo(np.float32).eps = 2^-23                                  *)
eps == <<1, 2^23>>

----------------------------------------------------------------------------
(* Exact rational arithmetic.                                              *)

Abs(x) == IF x < 0 THEN -x ELSE x

Sgn(x) == IF x < 0 THEN -1 ELSE IF x > 0 THEN 1 ELSE 0

RECURSIVE GCD(_, _)
GCD(a, b) == IF b = 0 THEN a ELSE GCD(b, a % b)

Norm(n, d) ==
    IF d = 0 THEN <<Sgn(n), 0>>
    ELSE LET g == GCD(Abs(n), Abs(d))
         IN  IF d < 0 THEN <<-(n \div g), (-d) \div g>>
                      ELSE <<n \div g, d \div g>>

Zero == <<0, 1>>

NaN == <<0, 0>>

FromInt(n) == <<n, 1>>

IsFinite(x) == x[2] # 0

Neg(x) == <<-x[1], x[2]>>

Add(x, y) ==
    IF IsFinite(x) /\ IsFinite(y)
    THEN LET g == GCD(x[2], y[2])
         IN  Norm(x[1] * (y[2] \div g) + y[1] * (x[2] \div g),
                  x[2] * (y[2] \div g))
    ELSE IF IsFinite(y) THEN x
    ELSE IF IsFinite(x) THEN y
    ELSE IF x = y THEN x ELSE NaN

Sub(x, y) == Add(x, Neg(y))

Mul(x, y) ==
    IF IsFinite(x) /\ IsFinite(y)
    THEN LET g1 == GCD(Abs(x[1]), y[2])
             g2 == GCD(Abs(y[1]), x[2])
         IN  IF x[1] = 0 \/ y[1] = 0 THEN Zero
             ELSE Norm((x[1] \div g1) * (y[1] \div g2),
                       (x[2] \div g2) * (y[2] \div g1))
    ELSE <<Sgn(x[1]) * Sgn(y[1]), 0>>

Div(x, y) ==
    IF ~IsFinite(x) \/ ~IsFinite(y)
    THEN IF IsFinite(y) /\ x # NaN THEN <<x[1] * (IF y[1] < 0 THEN -1 ELSE 1), 0>>
         ELSE IF IsFinite(x) /\ y # NaN THEN Zero
         ELSE NaN
    ELSE IF y[1] = 0 THEN <<Sgn(x[1]), 0>>
    ELSE Mul(x, Norm(y[2], y[1]))

Less(x, y) == x[1] * y[2] < y[1] * x[2]

RECURSIVE SumSeq(_)
SumSeq(s) == IF s = <<>> THEN 0 ELSE Head(s) + SumSeq(Tail(s))

RECURSIVE SumRat(_)
SumRat(s) == IF s = <<>> THEN Zero ELSE Add(Head(s), SumRat(Tail(s)))

Reverse(s) == [k \in 1..Len(s) |-> s[Len(s) + 1 - k]]

----------------------------------------------------------------------------
(* TensorArray and tensor primitives.                                      *)

(* TensorArray.write(index, value), index counted from 0; a dynamic array  *)
(* grows up to the index written, unwritten slots reading as zero.         *)
Write(arr, index, value) ==
    [k \in 1..(IF index + 1 > Len(arr) THEN index + 1 ELSE Len(arr)) |->
        IF k = index + 1 THEN value
        ELSE IF k <= Len(arr) THEN arr[k] ELSE Zero]

(* tf.TensorArray(size=n): n slots, all zero until written.                *)
TensorArray(n) == [k \in 1..n |-> Zero]

(* tf.math.reduce_mean; the mean of no elements is 0/0 = NaN.              *)
reduce_mean(x) == Div(SumRat(x), FromInt(Len(x)))

(* Square root of a rational >= 0, rounded down to a multiple of 1/16      *)
(* (exact on 0 and on every square of such a multiple).                    *)
Sqrt(x) ==
    IF ~IsFinite(x) THEN x
    ELSE LET S == 2^4
             top == S * ((x[1] \div x[2]) + 1)
             k == CHOOSE c \in 0..top :
                     /\ c * c * x[2] <= x[1] * S * S
                     /\ (c + 1) * (c + 1) * x[2] > x[1] * S * S
         IN  Norm(k, S)

(* tf.math.reduce_std: the population standard deviation.                  *)
reduce_std(x) ==
    LET m == reduce_mean(x)
        sq == [k \in 1..Len(x) |-> Mul(Sub(x[k], m), Sub(x[k], m))]
    IN  Sqrt(reduce_mean(sq))

----------------------------------------------------------------------------
(* get_expected_return                                                     *)

(* The loop "for i in tf.range(n)": rev is the reversed reward sequence,   *)
(* k the loop variable (from 0), acc the TensorArray returns.              *)
RECURSIVE Accumulate(_, _, _, _, _)
Accumulate(rev, g, k, discounted_sum, acc) ==
    IF k >= Len(rev) THEN acc
    ELSE LET r == FromInt(rev[k + 1])
             ds == Add(r, Mul(g, discounted_sum))
         IN  Accumulate(rev, g, k + 1, ds, Write(acc, k, ds))

(* The returns left in the order they were accumulated, last step first.   *)
DiscountedReturnsNotReversed(rs, g) ==
    Accumulate(Reverse(rs), g, 0, Zero, TensorArray(Len(rs)))

(* returns = returns.stack()[::-1]                                         *)
DiscountedReturns(rs, g) ==
    Reverse(Accumulate(Reverse(rs), g, 0, Zero, TensorArray(Len(rs))))

(* The divisor without the eps added to it.                                *)
StdDivisorNoEps(x) == reduce_std(x)

(* The divisor of the standardization.                                     *)
StdDivisor(x) == Add(reduce_std(x), eps)

Standardized(x) ==
    LET m == reduce_mean(x)
        d == StdDivisor(x)
    IN  [k \in 1..Len(x) |-> Div(Sub(x[k], m), d)]

get_expected_return(rs, g, std) ==
    IF std THEN Standardized(DiscountedReturns(rs, g))
           ELSE DiscountedReturns(rs, g)

----------------------------------------------------------------------------
(* The reward history and the stop test of the training loop.              *)

(* A deque that never evicts.                                              *)
DequeAppendUnbounded(q, x, maxlen) == Append(q, x)

(* collections.deque(maxlen=...).append                                    *)
DequeAppend(q, x, maxlen) ==
    IF Len(q) < maxlen THEN Append(q, x)
    ELSE IF maxlen = 0 THEN <<>>
    ELSE Append(Tail(q), x)

(* statistics.mean of a non-empty sequence of ints                         *)
mean(q) == Norm(SumSeq(q), Len(q))

(* running_reward > reward_threshold and i >= min_episodes_criterion       *)
ShouldBreak(rr, idx) ==
    Less(FromInt(reward_threshold), rr) /\ idx >= min_episodes_criterion

(* The sum without the last reward.                                        *)
reduce_sumButLast(rs) == SumSeq(SubSeq(rs, 1, Len(rs) - 1))

(* tf.math.reduce_sum(rewards)                                             *)
reduce_sum(rs) == SumSeq(rs)

(* The gradients dropped.                                                  *)
apply_gradientsNothing(p) == p

(* optimizer.apply_gradients: one optimizer step, one new parameter set    *)
apply_gradients(p) == p + 1

----------------------------------------------------------------------------
(* run_episode                                                             *)

(* Lines 128-133: three empty dynamic TensorArrays.                        *)
StartEpisode ==
    /\ action_probs' = <<>>
    /\ values' = <<>>
    /\ rewards' = <<>>
    /\ stacked' = {}
    /\ returns' = <<>>
    /\ t' = 0
    /\ reward' = 0
    /\ done' = FALSE

(* Lines 135-150: the loop head, the forward pass, the sampled action and  *)
(* the two writes. Whichever action is sampled, one value estimate and     *)
(* one probability are recorded, each as the parameter version that        *)
(* produced it; the environment's answer to the action is left open in     *)
(* EnvStep.                                                                *)
Infer ==
    /\ pc = "rollout"
    /\ t < max_steps
    /\ values' = Write(values, t, params)
    /\ action_probs' = Write(action_probs, t, params)
    /\ pc' = "env_step"
    /\ UNCHANGED <<iter, i, max_steps, gamma, standardize, t, reward, done,
                   env_steps, env_done, stepped_after_done, rewards, stacked,
                   returns, params, episode_reward,
                   episodes_reward, running_reward, reported>>

(* Lines 153-154 with env_step (111-115): one call of env.step; the        *)
(* environment answers with any reward and any termination flag.           *)
EnvStep ==
    /\ pc = "env_step"
    /\ \E r \in Rewards, d \in BOOLEAN :
          /\ reward' = r
          /\ done' = d
          /\ env_done' = (env_done \/ d)
    /\ env_steps' = env_steps + 1
    /\ stepped_after_done' = (stepped_after_done \/ env_done)
    /\ pc' = "store"
    /\ UNCHANGED <<iter, i, max_steps, gamma, standardize, t, action_probs,
                   values, rewards, stacked, returns, params,
                   episode_reward, episodes_reward,
                   running_reward, reported>>

(* The reward of the terminating step left out.                           *)
StoreRewardUnlessDone ==
    /\ pc = "store"
    /\ rewards' = (IF done THEN rewards ELSE Write(rewards, t, reward))
    /\ pc' = "test"
    /\ UNCHANGED <<iter, i, max_steps, gamma, standardize, t, reward, done,
                   env_steps, env_done, stepped_after_done, action_probs,
                   values, stacked, returns, params,
                   episode_reward, episodes_reward, running_reward, reported>>

(* Line 157 *)
StoreReward ==
    /\ pc = "store"
    /\ rewards' = Write(rewards, t, reward)
    /\ pc' = "test"
    /\ UNCHANGED <<iter, i, max_steps, gamma, standardize, t, reward, done,
                   env_steps, env_done, stepped_after_done, action_probs,
                   values, stacked, returns, params, episode_reward, episodes_reward, running_reward, reported>>

(* The termination flag never looked at.                                  *)
TestDoneNeverBreaks ==
    /\ pc = "test"
    /\ pc' = "rollout"
    /\ t' = t + 1
    /\ UNCHANGED <<iter, i, max_steps, gamma, standardize, reward, done,
                   env_steps, env_done, stepped_after_done, action_probs,
                   values, rewards, stacked, returns, params,
                   episode_reward, episodes_reward,
                   running_reward, reported>>

(* Lines 159-160, and the loop's step to the next t.                       *)
TestDone ==
    /\ pc = "test"
    /\ IF done THEN pc' = "stack" /\ t' = t
               ELSE pc' = "rollout" /\ t' = t + 1
    /\ UNCHANGED <<iter, i, max_steps, gamma, standardize, reward, done,
                   env_steps, env_done, stepped_after_done, action_probs,
                   values, rewards, stacked, returns, params,
                   episode_reward, episodes_reward,
                   running_reward, reported>>

(* Lines 162-166, reached by the break or by the range running out:        *)
(* values and rewards are rebound to their stacked tensors; the stacked    *)
(* action probabilities are bound to the new name actions_probs, and the   *)
(* TensorArray action_probs is what is returned.                           *)
EndEpisode ==
    /\ \/ pc = "stack"
       \/ pc = "rollout" /\ t >= max_steps
    /\ stacked' = {"values", "rewards"}
    /\ pc' = "returns"
    /\ UNCHANGED <<iter, i, max_steps, gamma, standardize, t, reward, done,
                   env_steps, env_done, stepped_after_done, action_probs,
                   values, rewards, returns, params, episode_reward, episodes_reward, running_reward, reported>>

----------------------------------------------------------------------------
(* train_step                                                              *)

(* Line 267: get_expected_return(rewards, gamma), standardize defaulting   *)
(* to True.                                                                *)
ExpectedReturn ==
    /\ pc = "returns"
    /\ returns' = get_expected_return(rewards, gamma, standardize)
    /\ pc' = "expand"
    /\ UNCHANGED <<iter, i, max_steps, gamma, standardize, t, reward, done,
                   env_steps, env_done, stepped_after_done, action_probs,
                   values, rewards, stacked, params, episode_reward, episodes_reward, running_reward, reported>>

(* Lines 269-271: tf.expand_dims over [action_probs, values, returns].     *)
(* tf.expand_dims is library code; handed a TensorArray instead of a       *)
(* tensor it either converts it to the tensor of its elements or raises,   *)
(* and the exception leaves train_step and the training loop.              *)
ExpandDims ==
    /\ pc = "expand"
    /\ \/ pc' = "loss"
       \/ "action_probs" \notin stacked /\ pc' = "raised"
    /\ UNCHANGED <<iter, i, max_steps, gamma, standardize, t, reward, done,
                   env_steps, env_done, stepped_after_done, action_probs,
                   values, rewards, stacked, returns, params,
                   episode_reward, episodes_reward,
                   running_reward, reported>>

(* Lines 273-281: the loss, its gradients, one optimizer step on the       *)
(* model's parameters, and the sum of the rewards as the result.           *)
ApplyGradients ==
    /\ pc = "loss"
    /\ params' = apply_gradients(params)
    /\ episode_reward' = reduce_sum(rewards)
    /\ pc' = "push"
    /\ UNCHANGED <<iter, i, max_steps, gamma, standardize, t, reward, done,
                   env_steps, env_done, stepped_after_done, action_probs,
                   values, rewards, stacked, returns, episodes_reward,
                   running_reward, reported>>

----------------------------------------------------------------------------
(* The training loop                                                       *)

(* Lines 316-319: the next i of trange(max_episodes), env.reset(), and the *)
(* call of train_step, which enters run_episode.                           *)
Reset ==
    /\ pc = "loop"
    /\ iter < max_episodes
    /\ i' = iter
    /\ iter' = iter + 1
    /\ env_steps' = 0
    /\ env_done' = FALSE
    /\ stepped_after_done' = FALSE
    /\ StartEpisode
    /\ pc' = "rollout"
    /\ UNCHANGED <<max_steps, gamma, standardize, params,
                   episode_reward, episodes_reward,
                   running_reward, reported>>

(* Lines 319-322 *)
Push ==
    /\ pc = "push"
    /\ episodes_reward' =
          DequeAppend(episodes_reward, episode_reward, min_episodes_criterion)
    /\ running_reward' = mean(episodes_reward')
    /\ pc' = "check"
    /\ UNCHANGED <<iter, i, max_steps, gamma, standardize, t, reward, done,
                   env_steps, env_done, stepped_after_done, action_probs,
                   values, rewards, stacked, returns, params,
                   episode_reward, reported>>

(* The count of episodes run printed in place of the index i.              *)
ReportCount == reported' = <<iter, running_reward>>

(* Line 333 *)
Report == reported' = <<i, running_reward>>

(* Lines 324-331: the break; else line 316 draws the next i, or, with     *)
(* trange(max_episodes) run out, the loop ends. Line 333 follows either    *)
(* end.                                                                    *)
StopCheck ==
    /\ pc = "check"
    /\ IF ShouldBreak(running_reward, i)
       THEN pc' = "done" /\ Report
       ELSE IF iter >= max_episodes
       THEN pc' = "done" /\ Report
       ELSE pc' = "loop" /\ reported' = reported
    /\ UNCHANGED <<iter, i, max_steps, gamma, standardize, t, reward, done,
                   env_steps, env_done, stepped_after_done, action_probs,
                   values, rewards, stacked, returns, params,
                   episode_reward, episodes_reward, running_reward>>

----------------------------------------------------------------------------
(* A call of get_expected_return on its own.                               *)

CallExpectedReturn ==
    /\ pc = "call"
    /\ returns' = get_expected_return(rewards, gamma, standardize)
    /\ pc' = "returned"
    /\ UNCHANGED <<iter, i, max_steps, gamma, standardize, t, reward, done,
                   env_steps, env_done, stepped_after_done, action_probs,
                   values, rewards, stacked, params, episode_reward, episodes_reward, running_reward, reported>>

----------------------------------------------------------------------------
(* Specifications                                                          *)

Fresh ==
    /\ iter = 0
    /\ i = -1
    /\ t = 0
    /\ reward = 0
    /\ done = FALSE
    /\ env_steps = 0
    /\ env_done = FALSE
    /\ stepped_after_done = FALSE
    /\ action_probs = <<>>
    /\ values = <<>>
    /\ stacked = {}
    /\ returns = <<>>
    /\ params = 0
    /\ episode_reward = 0
    /\ episodes_reward = <<>>
    /\ running_reward = Zero
    /\ reported = <<>>

(* The training cell, from its first line.                                 *)
Init ==
    /\ Fresh
    /\ pc = "loop"
    /\ max_steps = max_steps_per_episode
    /\ gamma = train_gamma
    /\ standardize = TRUE
    /\ rewards = <<>>

Next ==
    \/ Reset
    \/ Infer
    \/ EnvStep
    \/ StoreReward
    \/ TestDone
    \/ EndEpisode
    \/ ExpectedReturn
    \/ ExpandDims
    \/ ApplyGradients
    \/ Push
    \/ StopCheck

Spec == Init /\ [][Next]_vars

(* The loop is sequential code: whatever step is enabled is taken. The     *)
(* step of ExpectedReturn, the one step out of "returns" and enabled in    *)
(* every state there, is named by the two positions it joins.              *)
FairSpec ==
    /\ Spec
    /\ WF_vars(Reset \/ Infer \/ EnvStep \/ StoreReward \/ TestDone
                   \/ EndEpisode \/ ExpandDims \/ ApplyGradients
                   \/ Push \/ StopCheck)
    /\ WF_pc(pc = "returns" /\ pc' = "expand")

(* One call of train_step on a freshly reset environment, with any step    *)
(* cap and any of the discount factors.                                    *)
InitEpisode ==
    /\ Fresh
    /\ pc = "rollout"
    /\ max_steps \in 0..MaxSteps
    /\ gamma \in Gammas
    /\ standardize = TRUE
    /\ rewards = <<>>

NextEpisode ==
    \/ Infer
    \/ EnvStep
    \/ StoreReward
    \/ TestDone
    \/ EndEpisode
    \/ ExpectedReturn
    \/ ExpandDims
    \/ ApplyGradients

SpecEpisode == InitEpisode /\ [][NextEpisode]_vars

(* One call of get_expected_return on any reward sequence.                 *)
RewardSeqs == UNION {[1..n -> 0..MaxInput] : n \in 0..MaxLen}

InitReturn ==
    /\ Fresh
    /\ pc = "call"
    /\ max_steps = 0
    /\ rewards \in RewardSeqs
    /\ gamma \in Gammas
    /\ standardize \in BOOLEAN

NextReturn == CallExpectedReturn

SpecReturn == InitReturn /\ [][NextReturn]_vars

----------------------------------------------------------------------------
(* Properties of get_expected_return (SpecReturn)                          *)

(* C1: for a reward sequence R of length n >= 1 and any discount gamma,    *)
(* get_expected_return(R, gamma, standardize=False) returns G of length n  *)
(* with G[n-1] = R[n-1] and G[i] = R[i] + gamma * G[i+1] for i < n-1, in   *)
(* chronological order.                                                    *)
C1_ReturnRecurrence ==
    (pc = "returned" /\ ~standardize /\ Len(rewards) >= 1) =>
        LET n == Len(rewards)
        IN  /\ Len(returns) = n
            /\ returns[n] = FromInt(rewards[n])
            /\ \A k \in 1..(n - 1) :
                  returns[k] = Add(FromInt(rewards[k]), Mul(gamma, returns[k + 1]))

(* R = [1, 1, 1] with gamma = 0.5 has given [1.75, 1.5, 1.0].              *)
C1_Witness ==
    /\ pc = "returned"
    /\ ~standardize
    /\ rewards = <<1, 1, 1>>
    /\ gamma = <<1, 2>>
    /\ returns = <<<<7, 4>>, <<3, 2>>, <<1, 1>>>>

AllEqual(x) == \A k \in 1..Len(x) : x[k] = x[1]

(* C8: when all discounted returns of an episode are equal (a one-step     *)
(* episode included), standardize=True divides by std + eps > 0, never by  *)
(* zero, and every standardized return is 0.                               *)
C8_EqualReturnsStandardizeToZero ==
    (/\ pc = "returned"
     /\ standardize
     /\ Len(rewards) >= 1
     /\ AllEqual(DiscountedReturns(rewards, gamma))) =>
        /\ IsFinite(StdDivisor(DiscountedReturns(rewards, gamma)))
        /\ Less(Zero, StdDivisor(DiscountedReturns(rewards, gamma)))
        /\ Len(returns) = Len(rewards)
        /\ \A k \in 1..Len(returns) : returns[k] = Zero

(* Rewards [1, 1, 2] with gamma = 0.5, whose returns are all 2, have been  *)
(* standardized.                                                           *)
C8_Witness ==
    /\ pc = "returned"
    /\ standardize
    /\ rewards = <<1, 1, 2>>
    /\ gamma = <<1, 2>>
    /\ AllEqual(DiscountedReturns(rewards, gamma))
    /\ \A k \in 1..Len(returns) : returns[k] = Zero

----------------------------------------------------------------------------
(* Properties of one episode (SpecEpisode)                                 *)

(* run_episode has returned.                                               *)
AfterEpisode == pc \in {"returns", "expand", "loss", "raised", "push", "check"}

(* get_expected_return has returned too.                                   *)
AfterReturns == pc \in {"expand", "loss", "raised", "push", "check"}

(* C2: after an episode run by run_episode followed by                     *)
(* get_expected_return, the chosen-action probabilities, the value         *)
(* estimates, the rewards and the returns have one length, the number of   *)
(* environment steps taken, which is at most max_steps.                    *)
C2_EqualLengths ==
    AfterReturns =>
        /\ Len(action_probs) = env_steps
        /\ Len(values) = env_steps
        /\ Len(rewards) = env_steps
        /\ Len(returns) = env_steps
        /\ env_steps <= max_steps

(* An episode cut short by termination, one step before its cap.           *)
C2_Witness ==
    /\ pc = "expand"
    /\ max_steps = MaxSteps
    /\ env_steps = max_steps - 1
    /\ Len(returns) = env_steps
    /\ Len(action_probs) = env_steps

(* C9: every iteration of run_episode records the probability and the      *)
(* value, then steps the environment once, then appends that step's        *)
(* reward, and only then tests the termination flag; the episode ends at   *)
(* the first step that signals termination or after max_steps steps, with  *)
(* the terminating step's reward recorded, and the environment is never    *)
(* stepped once it has signalled termination.                              *)
C9_StepOrder ==
    /\ ~stepped_after_done
    /\ env_steps <= max_steps
    /\ pc = "rollout" =>
          /\ ~env_done
          /\ env_steps = t
          /\ Len(action_probs) = t /\ Len(values) = t /\ Len(rewards) = t
    /\ pc = "env_step" =>
          /\ ~env_done
          /\ env_steps = t
          /\ Len(action_probs) = t + 1 /\ Len(values) = t + 1
          /\ Len(rewards) = t
    /\ pc = "store" =>
          /\ env_steps = t + 1
          /\ env_done = done
          /\ Len(action_probs) = t + 1 /\ Len(values) = t + 1
          /\ Len(rewards) = t
    /\ pc = "test" =>
          /\ env_steps = t + 1
          /\ env_done = done
          /\ Len(rewards) = t + 1
          /\ rewards[t + 1] = reward
    /\ (pc = "stack" \/ AfterEpisode) =>
          /\ Len(rewards) = env_steps
          /\ \/ /\ done /\ env_done
                /\ env_steps = t + 1
                /\ rewards[env_steps] = reward
             \/ ~done /\ ~env_done /\ env_steps = max_steps

(* An episode ended by termination at its second step, short of its cap,   *)
(* that step's reward of 1 recorded.                                       *)
C9_Witness ==
    /\ pc = "returns"
    /\ done
    /\ max_steps = MaxSteps
    /\ env_steps = 2
    /\ env_steps < max_steps
    /\ rewards[2] = 1

----------------------------------------------------------------------------
(* Properties of the training loop (Spec, FairSpec)                        *)

(* train_step has been entered and has not returned.                       *)
InTrainStep ==
    pc \in {"rollout", "env_step", "store", "test", "stack", "returns",
            "expand", "loss", "raised"}

C3_Bounded ==
    /\ Len(episodes_reward) <= min_episodes_criterion
    /\ episodes_reward = <<>> => running_reward = Zero
    /\ episodes_reward # <<>> =>
          /\ running_reward[2] > 0
          /\ running_reward[1] * Len(episodes_reward)
                = SumSeq(episodes_reward) * running_reward[2]

C3_Evicts ==
    /\ pc # "push" => episodes_reward' = episodes_reward
    /\ (pc = "push" /\ Len(episodes_reward) < min_episodes_criterion) =>
          episodes_reward' = Append(episodes_reward, episode_reward)
    /\ (pc = "push" /\ Len(episodes_reward) = min_episodes_criterion) =>
          /\ Len(episodes_reward') = min_episodes_criterion
          /\ \A k \in 1..(min_episodes_criterion - 1) :
                episodes_reward'[k] = episodes_reward[k + 1]
          /\ episodes_reward'[min_episodes_criterion] = episode_reward

(* C3: the reward history never holds more than min_episodes_criterion     *)
(* entries; once it is full, appending an episode reward removes exactly   *)
(* the oldest entry and keeps the others in order; running_reward is the   *)
(* arithmetic mean of the entries held.                                    *)
C3_RewardHistory == []C3_Bounded /\ [][C3_Evicts]_vars

(* A full history has taken one more reward and dropped its oldest.        *)
C3_Witness ==
    /\ pc = "check"
    /\ iter > min_episodes_criterion
    /\ Len(episodes_reward) = min_episodes_criterion
    /\ episodes_reward[1] # episodes_reward[min_episodes_criterion]
    /\ running_reward = Norm(SumSeq(episodes_reward), min_episodes_criterion)

(* C4: the loop stops after an episode exactly when the running average    *)
(* strictly exceeds the threshold and at least min_episodes_criterion      *)
(* episodes have elapsed, or max_episodes episodes have been run; else it  *)
(* goes on to the next episode. iter counts the episodes elapsed.          *)
C4_StopsExactlyWhen ==
    [][pc = "check" =>
          (pc' = "done" <=>
              \/ /\ Less(FromInt(reward_threshold), running_reward)
                 /\ iter >= min_episodes_criterion
              \/ iter >= max_episodes)]_vars

C6_OneUpdatePerEpisode ==
    /\ i = iter - 1
    /\ params = (IF InTrainStep THEN iter - 1 ELSE iter)

C6_OnlyTheOptimizerStep ==
    /\ params' # params =>
          pc = "loss" /\ pc' = "push" /\ params' = params + 1
    /\ i' # i => pc = "loop" /\ i' = i + 1

(* C6: every episode runs once and brings one update of the model          *)
(* parameters: at every point the optimizer steps applied number the       *)
(* episodes completed, no episode index is run twice, and the parameters   *)
(* change in the optimizer step of train_step alone.                       *)
C6_OneUpdateEach == []C6_OneUpdatePerEpisode /\ [][C6_OnlyTheOptimizerStep]_vars

(* Two episodes completed, two updates applied, the third not begun.       *)
C6_Witness == pc = "loop" /\ iter = 2 /\ params = 2

C7_Budget ==
    /\ iter <= max_episodes
    /\ env_steps <= max_steps_per_episode
    /\ pc # "done" => reported = <<>>
    /\ pc = "done" =>
          /\ reported = <<iter - 1, running_reward>>
          /\ \/ iter = max_episodes
             \/ Less(FromInt(reward_threshold), running_reward)

C7_ExhaustionIsNormal ==
    (/\ pc = "check"
     /\ iter = max_episodes
     /\ ~Less(FromInt(reward_threshold), running_reward)) =>
        pc' = "done" /\ reported' = <<max_episodes - 1, running_reward>>

(* C7: the run always ends; it runs at most max_episodes episodes of at    *)
(* most max_steps_per_episode steps each, and a run that uses up its       *)
(* episodes without meeting the threshold ends normally, reporting the     *)
(* index of the last episode run and the running average of that moment.   *)
C7_Terminates ==
    /\ []C7_Budget
    /\ [][C7_ExhaustionIsNormal]_vars
    /\ <>(pc \in {"done", "raised"})

(* The episodes used up, the threshold not met, the report made.           *)
C7_Witness ==
    /\ pc = "done"
    /\ iter = max_episodes
    /\ ~Less(FromInt(reward_threshold), running_reward)
    /\ reported = <<max_episodes - 1, running_reward>>

(* C10: with max_steps >= 1 every trajectory run_episode produces has at   *)
(* least one step, also when the first step terminates the episode, and    *)
(* the episode reward pushed into the history is the sum of the rewards    *)
(* recorded in that trajectory.                                            *)
C10_NonEmptyAndSummed ==
    /\ (max_steps >= 1 /\ AfterEpisode) =>
          /\ Len(rewards) >= 1
          /\ Len(values) >= 1
          /\ Len(action_probs) >= 1
    /\ pc = "push" => episode_reward = SumSeq(rewards)
    /\ pc = "check" =>
          /\ episodes_reward # <<>>
          /\ episodes_reward[Len(episodes_reward)] = SumSeq(rewards)

(* An episode ended by its first step, its one reward pushed.              *)
C10_Witness ==
    /\ pc = "check"
    /\ done
    /\ env_steps = 1
    /\ rewards = <<1>>
    /\ episodes_reward[Len(episodes_reward)] = 1

====
